---- MODULE Spec2Model ----
(***************************************************************************)
(* hvsampledata: the path resolver (_get_path), the remote fetch           *)
(* (_download_data) and the engine dispatcher (_get_method, _load_tabular, *)
(* _load_gridded) of src/src/hvsampledata/_util.py.                        *)
(*                                                                         *)
(* The accessors of src/src/hvsampledata/__init__.py are modelled on top   *)
(* of them.                                                                *)
(*                                                                         *)
(* The specifications share the variables:                                 *)
(*   Spec          calls of _get_path made one after the other (the        *)
(*                 program is single-threaded), over one cache directory;  *)
(*   SpecResolve   the same with identifiers of any form;                  *)
(*   SpecConc      the same calls made by several processes at once;       *)
(*   SpecDispatch  calls of _get_method / _load_tabular / _load_gridded in *)
(*                 every environment of installed libraries;               *)
(*   SpecAccessors calls of the accessors that read a bundled file;        *)
(*   SpecSynthetic calls of synthetic_clusters;                            *)
(*   SpecLoad      calls of the loaders for a remote dataset.              *)
(***************************************************************************)
EXTENDS Naturals, Sequences, FiniteSets, TLC

(***************************************************************************)
(* Bounds.                                                                 *)
(***************************************************************************)
\* the processes that share the cache directory
NProcs == 2
\* the chunks of 1024 bytes a response body is streamed in
BodyLen == 2
\* the distinct values a chunk can have
NChunkVals == 2

Procs == 1..NProcs
ChunkVals == 1..NChunkVals
\* a hole left by a write past the end of a file reads as zero bytes
Hole == 0

(***************************************************************************)
(* Identifiers.  A dataset identifier is a string; it is modelled as the   *)
(* sequence of its lexical pieces, so that str.startswith, urlsplit,       *)
(* str.lstrip and str.split act on it as they do on the string.            *)
(***************************************************************************)
\* "https://datasets.holoviz.org/nyc_taxi/v2/nyc_taxi_wide.parq", the URL of
\* _KNOWN_HASHES
KnownUrl ==
    <<"http", "s", ":", "//", "datasets.holoviz.org",
      "/", "nyc_taxi", "/", "v2", "/", "nyc_taxi_wide", ".", "parq">>
\* the same path on another host:
\* "http://mirror.example/nyc_taxi/v2/nyc_taxi_wide.parq"
MirrorUrl ==
    <<"http", ":", "//", "mirror.example",
      "/", "nyc_taxi", "/", "v2", "/", "nyc_taxi_wide", ".", "parq">>
\* a URL with no registered hash: "https://datasets.holoviz.org/other.csv?v=2"
OtherUrl == <<"http", "s", ":", "//", "datasets.holoviz.org", "/", "other", ".", "csv", "?", "v=2">>
\* bundled files: "penguins.csv" and "air_temperature_small.nc"
PenguinsCsv == <<"penguins", ".", "csv">>
AirTemperatureNc == <<"air_temperature_small", ".", "nc">>

\* a file name that begins with the letters http, and a URL whose scheme
\* does not
HttpDataCsv == <<"http", "data", ".", "csv">>
FtpUrl == <<"ftp", ":", "//", "datasets.holoviz.org", "/", "other", ".", "csv">>
\* a URL whose path climbs: "https://datasets.holoviz.org/../../evil.csv"
TraversalUrl ==
    <<"http", "s", ":", "//", "datasets.holoviz.org",
      "/", "..", "/", "..", "/", "evil", ".", "csv">>
OddDatasets == {HttpDataCsv, FtpUrl, TraversalUrl}
RemoteDatasets == {KnownUrl, MirrorUrl, OtherUrl}
BundledDatasets == {PenguinsCsv, AirTemperatureNc}
Datasets == RemoteDatasets \cup BundledDatasets
NoDataset == <<>>

\* the pieces that are runs of slashes
Slashes == {"/", "//"}
\* the pieces no URL scheme may contain
NotSchemeChars == {"/", "//", "?", "#", ":"}

\* str.startswith("http")
StartsWithHttp(dataset) == Len(dataset) >= 1 /\ dataset[1] = "http"

\* the index of the first piece of s that is in set, Len(s) + 1 if none
RECURSIVE FirstIn(_, _, _)
FirstIn(s, set, i) ==
    IF i > Len(s) THEN Len(s) + 1
    ELSE IF s[i] \in set THEN i
    ELSE FirstIn(s, set, i + 1)

\* urlsplit(url): the scheme is what precedes the first ":" when it has only
\* scheme characters; a "//" after it opens the network location, which runs
\* to the next "/", "?" or "#"; the path runs to the first "?" or "#".
urlsplit(url) ==
    LET colon == FirstIn(url, {":"}, 1)
        hasScheme == /\ colon > 1
                     /\ colon <= Len(url)
                     /\ \A i \in 1..(colon - 1) : url[i] \notin NotSchemeChars
        rest == IF hasScheme THEN SubSeq(url, colon + 1, Len(url)) ELSE url
        hasNetloc == Len(rest) >= 1 /\ rest[1] = "//"
        afterSlashes == IF hasNetloc THEN SubSeq(rest, 2, Len(rest)) ELSE rest
        netlocEnd == FirstIn(afterSlashes, {"/", "//", "?", "#"}, 1)
        tail == IF hasNetloc
                THEN SubSeq(afterSlashes, netlocEnd, Len(afterSlashes))
                ELSE rest
        pathEnd == FirstIn(tail, {"?", "#"}, 1)
    IN  [scheme |-> IF hasScheme THEN SubSeq(url, 1, colon - 1) ELSE <<>>,
         netloc |-> IF hasNetloc THEN SubSeq(afterSlashes, 1, netlocEnd - 1) ELSE <<>>,
         path   |-> SubSeq(tail, 1, pathEnd - 1)]

\* str.lstrip("/")
RECURSIVE lstrip(_)
lstrip(s) ==
    IF Len(s) >= 1 /\ s[1] \in Slashes THEN lstrip(Tail(s)) ELSE s

\* _CACHEPATH / name and _DATAPATH / name
CachePath(name) == [root |-> "_CACHEPATH", rel |-> name]
DataPath(name) == [root |-> "_DATAPATH", rel |-> name]

\* the file a path names when it is opened lies under the root the relative
\* part was joined to: read from piece i at depth d below the root, no ".."
\* segment is met at depth 0 (Path's / keeps ".." segments as they are, the
\* file system resolves them)
RECURSIVE Within(_, _, _)
Within(rel, i, d) ==
    IF i > Len(rel) THEN TRUE
    ELSE IF rel[i] = ".." THEN d > 0 /\ Within(rel, i + 1, d - 1)
    ELSE IF i = 1 \/ rel[i - 1] \in Slashes THEN Within(rel, i + 1, d + 1)
    ELSE Within(rel, i + 1, d)

\* the path _get_path derives for an identifier (lines 38-40 and 46)
ResolvedPath(dataset) ==
    IF StartsWithHttp(dataset)
    THEN CachePath(lstrip(urlsplit(dataset).path))
    ELSE DataPath(dataset)

\* the files of the cache directory the identifiers of the model name
CachePaths ==
    {ResolvedPath(d) : d \in {x \in Datasets \cup OddDatasets : StartsWithHttp(x)}}

(***************************************************************************)
(* Content and its hash.  SHA-256 is modelled as a collision-free digest   *)
(* computed chunk by chunk, as hashlib's update() and hexdigest() do.      *)
(***************************************************************************)
Bodies == [1..BodyLen -> ChunkVals]
\* the content the publisher of a dataset released
GoodBody == [i \in 1..BodyLen |-> 1]

HashBase == NChunkVals + 1
\* hashlib.sha256()
sha256_new == 0
\* sha256_hash.update(chunk)
sha256_update(h, chunk) == h * HashBase + chunk
RECURSIVE sha256(_)
sha256(content) ==
    IF content = <<>> THEN sha256_new
    ELSE sha256_update(sha256(SubSeq(content, 1, Len(content) - 1)), content[Len(content)])

\* None: no digest
NoHash == <<>>
\* _KNOWN_HASHES.get(url): the registered digest, None for any other URL
_KNOWN_HASHES(url) == IF url = KnownUrl THEN <<sha256(GoodBody)>> ELSE NoHash

(***************************************************************************)
(* State.                                                                  *)
(***************************************************************************)
VARIABLES
    fs,         \* the cache directory: the file at each path, or Absent
    pc,         \* where each process is in its call
    ds,         \* the identifier of the call in progress
    http,       \* the PoolManager of the call: "none", "open" or "cleared"
    response,   \* the response object of the call, or NoResponse
    conn,       \* its connection: "none", "held" or "released"
    fd,         \* the file object f: "closed", "linked" (it is the file at the
                \* path) or "unlinked" (the path was removed under it)
    pos,        \* the chunks streamed so far, which is f's offset
    sha,        \* sha256_hash: NoHash or <<digest so far>>
    exc,        \* the exception that is propagating, or NoExc
    ctx,        \* the exception it replaced (__context__), or NoExc
    result,     \* what the call returned, or NoResult
    fetched,    \* history: the URLs a fetch of which completed with "File saved"
    installed,  \* the top-level modules find_spec finds in this environment
    imported,   \* the modules imported so far (sys.modules)
    dcall,      \* the arguments of the dispatcher call
    outcome,    \* what the dispatcher call returned or raised
    rng,        \* the state of the global generator of the random module
    last        \* history: the previous synthetic_clusters call and its data

fetchVars == <<fs, pc, ds, http, response, conn, fd, pos, sha, exc, ctx, result, fetched>>
synthVars == <<rng, last>>
dispatchVars == <<installed, imported, dcall, outcome, synthVars>>
vars == <<fetchVars, dispatchVars>>
locals == <<http, response, conn, fd, pos, sha, exc, ctx>>

\* a path with no file, and a file with its content
Absent == [exists |-> FALSE, content |-> <<>>]
File(content) == [exists |-> TRUE, content |-> content]
NoResponse == [status |-> 0, body |-> <<>>]
NoExc == "none"
NoResult == [root |-> "none", rel |-> <<>>]

\* the statuses a server answers with
Statuses == {200, 404}
\* what http.request raises: a urllib3 error, or the user's Ctrl-C
RequestErrors == {"MaxRetryError", "KeyboardInterrupt"}
\* what response.stream and f.write raise
StreamErrors == {"ProtocolError", "KeyboardInterrupt"}
\* the classes `except Exception` catches: KeyboardInterrupt derives from
\* BaseException only
IsException(e) == e \in {"MaxRetryError", "ProtocolError", "HashMismatchError", "FileNotFoundError"}

\* Path.exists()
PathExists(path) == fs[path].exists

\* the processes whose file object is the file at path
Holders(path) == {q \in Procs : fd[q] = "linked" /\ ResolvedPath(ds[q]) = path}

\* the content of a file after a write of chunk at offset off
WriteAt(content, off, chunk) ==
    [i \in 1..(IF off + 1 > Len(content) THEN off + 1 ELSE Len(content)) |->
        IF i = off + 1 THEN chunk
        ELSE IF i <= Len(content) THEN content[i]
        ELSE Hole]

(***************************************************************************)
(* _get_path (lines 37-47).  A remote identifier whose cache file exists   *)
(* is returned at once; otherwise the parent directory is made and         *)
(* _download_data runs, in the steps below.                                *)
(***************************************************************************)
\* a resolver that fetches a remote identifier on every call
_get_path_refetch(p, dataset) ==
    /\ pc[p] = "idle"
    /\ ds' = [ds EXCEPT ![p] = dataset]
    /\ IF StartsWithHttp(dataset)
       THEN /\ pc' = [pc EXCEPT ![p] = "request"]
            /\ UNCHANGED result
       ELSE /\ pc' = [pc EXCEPT ![p] = "returned"]
            /\ result' = [result EXCEPT ![p] = ResolvedPath(dataset)]
    /\ UNCHANGED <<fs, locals, fetched, dispatchVars>>

_get_path(p, dataset) ==
    /\ pc[p] = "idle"
    /\ ds' = [ds EXCEPT ![p] = dataset]
    /\ IF StartsWithHttp(dataset)
       THEN IF PathExists(ResolvedPath(dataset))
            THEN /\ pc' = [pc EXCEPT ![p] = "returned"]
                 /\ result' = [result EXCEPT ![p] = ResolvedPath(dataset)]
            ELSE /\ pc' = [pc EXCEPT ![p] = "request"]
                 /\ UNCHANGED result
       ELSE /\ pc' = [pc EXCEPT ![p] = "returned"]
            /\ result' = [result EXCEPT ![p] = ResolvedPath(dataset)]
    /\ UNCHANGED <<fs, locals, fetched, dispatchVars>>

\* where an exception raised in the try block goes: to the except clause if it
\* is an Exception, straight to the finally clause if not (lines 92 and 97)
Handler(e) == IF IsException(e) THEN "except" ELSE "finally"

\* lines 57-63 and 90-91: the pool is made, the request is sent; it raises, or
\* it answers with a status, which takes a URL that names a host
_download_data_request(p) ==
    /\ pc[p] = "request"
    /\ http' = [http EXCEPT ![p] = "open"]
    /\ \/ \E e \in RequestErrors :
            /\ exc' = [exc EXCEPT ![p] = e]
            /\ pc' = [pc EXCEPT ![p] = Handler(e)]
            /\ UNCHANGED <<response, conn>>
       \/ \E st \in Statuses, body \in Bodies :
            /\ urlsplit(ds[p]).netloc # <<>>
            /\ response' = [response EXCEPT ![p] = [status |-> st, body |-> body]]
            /\ conn' = [conn EXCEPT ![p] = "held"]
            /\ pc' = [pc EXCEPT ![p] = IF st = 200 THEN "open" ELSE "finally"]
            /\ UNCHANGED exc
    /\ UNCHANGED <<fs, ds, fd, pos, sha, ctx, result, fetched, dispatchVars>>

\* a fetch that makes the accumulator whether or not a hash is registered
_download_data_open_hashing(p) ==
    /\ pc[p] = "open"
    /\ sha' = [sha EXCEPT ![p] = <<sha256_new>>]
    /\ fs' = [fs EXCEPT ![ResolvedPath(ds[p])] = File(<<>>)]
    /\ fd' = [fd EXCEPT ![p] = "linked"]
    /\ pos' = [pos EXCEPT ![p] = 0]
    /\ pc' = [pc EXCEPT ![p] = "stream"]
    /\ UNCHANGED <<ds, http, response, conn, exc, ctx, result, fetched, dispatchVars>>

\* lines 65-72: the accumulator is made if a hash is registered, and
\* open(path, "wb") creates the file or truncates the one that is there
_download_data_open(p) ==
    /\ pc[p] = "open"
    /\ sha' = [sha EXCEPT ![p] = IF _KNOWN_HASHES(ds[p]) # NoHash THEN <<sha256_new>> ELSE NoHash]
    /\ fs' = [fs EXCEPT ![ResolvedPath(ds[p])] = File(<<>>)]
    /\ fd' = [fd EXCEPT ![p] = "linked"]
    /\ pos' = [pos EXCEPT ![p] = 0]
    /\ pc' = [pc EXCEPT ![p] = "stream"]
    /\ UNCHANGED <<ds, http, response, conn, exc, ctx, result, fetched, dispatchVars>>

\* lines 73-76: one chunk is read, written at f's offset and hashed, or the
\* stream raises and the with block closes f; after the last chunk f is closed
_download_data_stream(p) ==
    /\ pc[p] = "stream"
    /\ IF pos[p] < Len(response[p].body)
       THEN \/ /\ fs' = IF fd[p] = "linked"
                        THEN [fs EXCEPT ![ResolvedPath(ds[p])] =
                                 File(WriteAt(@.content, pos[p], response[p].body[pos[p] + 1]))]
                        ELSE fs
               /\ sha' = [sha EXCEPT ![p] =
                            IF @ # NoHash
                            THEN <<sha256_update(@[1], response[p].body[pos[p] + 1])>>
                            ELSE @]
               /\ pos' = [pos EXCEPT ![p] = @ + 1]
               /\ UNCHANGED <<pc, fd, exc>>
            \/ \E e \in StreamErrors :
               /\ exc' = [exc EXCEPT ![p] = e]
               /\ fd' = [fd EXCEPT ![p] = "closed"]
               /\ pc' = [pc EXCEPT ![p] = Handler(e)]
               /\ UNCHANGED <<fs, sha, pos>>
       ELSE /\ fd' = [fd EXCEPT ![p] = "closed"]
            /\ pc' = [pc EXCEPT ![p] = "verify"]
            /\ UNCHANGED <<fs, sha, pos, exc>>
    /\ UNCHANGED <<ds, http, response, conn, ctx, result, fetched, dispatchVars>>

\* os.remove(path) by process p: the path is unlinked, and the file objects
\* open on it keep a file no path names
Remove(path) ==
    /\ fs' = [fs EXCEPT ![path] = Absent]
    /\ fd' = [q \in Procs |-> IF q \in Holders(path) THEN "unlinked" ELSE fd[q]]

\* a fetch that computes the digest and never compares it
_download_data_verify_unchecked(p) ==
    /\ pc[p] = "verify"
    /\ fetched' = fetched \cup {ds[p]}
    /\ pc' = [pc EXCEPT ![p] = "finally"]
    /\ UNCHANGED <<fs, fd, exc, ds, http, response, conn, pos, sha, ctx, result, dispatchVars>>

\* lines 78-89: the digest is compared; on a mismatch the file is removed and
\* HashMismatchError is raised (os.remove raises FileNotFoundError instead
\* if the path is gone); otherwise "File saved" is printed
_download_data_verify(p) ==
    /\ pc[p] = "verify"
    /\ IF sha[p] # NoHash /\ sha[p] # _KNOWN_HASHES(ds[p])
       THEN IF PathExists(ResolvedPath(ds[p]))
            THEN /\ Remove(ResolvedPath(ds[p]))
                 /\ exc' = [exc EXCEPT ![p] = "HashMismatchError"]
                 /\ pc' = [pc EXCEPT ![p] = "except"]
                 /\ UNCHANGED fetched
            ELSE /\ exc' = [exc EXCEPT ![p] = "FileNotFoundError"]
                 /\ pc' = [pc EXCEPT ![p] = "except"]
                 /\ UNCHANGED <<fs, fd, fetched>>
       ELSE /\ fetched' = fetched \cup {ds[p]}
            /\ pc' = [pc EXCEPT ![p] = "finally"]
            /\ UNCHANGED <<fs, fd, exc>>
    /\ UNCHANGED <<ds, http, response, conn, pos, sha, ctx, result, dispatchVars>>

\* lines 92-94: the except clause tests path.exists()
_download_data_except(p) ==
    /\ pc[p] = "except"
    /\ pc' = [pc EXCEPT ![p] = IF PathExists(ResolvedPath(ds[p])) THEN "except_remove" ELSE "finally"]
    /\ UNCHANGED <<fs, ds, locals, result, fetched, dispatchVars>>

\* line 95: os.remove(path); if the path is gone by now FileNotFoundError
\* replaces the exception that was being handled
_download_data_except_remove(p) ==
    /\ pc[p] = "except_remove"
    /\ IF PathExists(ResolvedPath(ds[p]))
       THEN /\ Remove(ResolvedPath(ds[p]))
            /\ UNCHANGED <<exc, ctx>>
       ELSE /\ ctx' = [ctx EXCEPT ![p] = exc[p]]
            /\ exc' = [exc EXCEPT ![p] = "FileNotFoundError"]
            /\ UNCHANGED <<fs, fd>>
    /\ pc' = [pc EXCEPT ![p] = "finally"]
    /\ UNCHANGED <<ds, http, response, conn, pos, sha, result, fetched, dispatchVars>>

\* a fetch that releases the connection and the pool at the end of the try
\* block, not in a finally clause
_download_data_finally_on_success(p) ==
    /\ pc[p] = "finally"
    /\ conn' = [conn EXCEPT ![p] = IF response[p] # NoResponse /\ exc[p] = NoExc THEN "released" ELSE @]
    /\ http' = [http EXCEPT ![p] = IF exc[p] = NoExc THEN "cleared" ELSE @]
    /\ IF exc[p] # NoExc
       THEN /\ pc' = [pc EXCEPT ![p] = "raised"]
            /\ UNCHANGED result
       ELSE /\ pc' = [pc EXCEPT ![p] = "returned"]
            /\ result' = [result EXCEPT ![p] = ResolvedPath(ds[p])]
    /\ UNCHANGED <<fs, ds, response, fd, pos, sha, exc, ctx, fetched, dispatchVars>>

\* lines 96-100, then line 44: the connection is released if there is a
\* response, the pool is cleared, and the exception propagates to the caller
\* of _get_path or, if there is none, _get_path returns the path
_download_data_finally(p) ==
    /\ pc[p] = "finally"
    /\ conn' = [conn EXCEPT ![p] = IF response[p] # NoResponse THEN "released" ELSE @]
    /\ http' = [http EXCEPT ![p] = "cleared"]
    /\ IF exc[p] # NoExc
       THEN /\ pc' = [pc EXCEPT ![p] = "raised"]
            /\ UNCHANGED result
       ELSE /\ pc' = [pc EXCEPT ![p] = "returned"]
            /\ result' = [result EXCEPT ![p] = ResolvedPath(ds[p])]
    /\ UNCHANGED <<fs, ds, response, fd, pos, sha, exc, ctx, fetched, dispatchVars>>

\* the steps of _download_data
InDownload == {"request", "open", "stream", "verify", "except", "except_remove", "finally"}

\* the process is killed (SIGKILL, power loss) inside _download_data: no
\* handler runs, the operating system closes its file and its sockets, and
\* nothing of the process is left but what it wrote to the cache directory
Kill(p) ==
    /\ pc[p] \in InDownload
    /\ pc' = [pc EXCEPT ![p] = "killed"]
    /\ ds' = [ds EXCEPT ![p] = NoDataset]
    /\ http' = [http EXCEPT ![p] = "none"]
    /\ response' = [response EXCEPT ![p] = NoResponse]
    /\ conn' = [conn EXCEPT ![p] = "none"]
    /\ fd' = [fd EXCEPT ![p] = "closed"]
    /\ pos' = [pos EXCEPT ![p] = 0]
    /\ sha' = [sha EXCEPT ![p] = NoHash]
    /\ exc' = [exc EXCEPT ![p] = NoExc]
    /\ ctx' = [ctx EXCEPT ![p] = NoExc]
    /\ UNCHANGED <<fs, result, fetched, dispatchVars>>

\* the call is over: the process (or the one started in its place) is ready
\* for its next call, with fresh locals
Done(p) ==
    /\ pc[p] \in {"returned", "raised", "killed"}
    /\ pc' = [pc EXCEPT ![p] = "idle"]
    /\ ds' = [ds EXCEPT ![p] = NoDataset]
    /\ http' = [http EXCEPT ![p] = "none"]
    /\ response' = [response EXCEPT ![p] = NoResponse]
    /\ conn' = [conn EXCEPT ![p] = "none"]
    /\ fd' = [fd EXCEPT ![p] = "closed"]
    /\ pos' = [pos EXCEPT ![p] = 0]
    /\ sha' = [sha EXCEPT ![p] = NoHash]
    /\ exc' = [exc EXCEPT ![p] = NoExc]
    /\ ctx' = [ctx EXCEPT ![p] = NoExc]
    /\ result' = [result EXCEPT ![p] = NoResult]
    /\ UNCHANGED <<fs, fetched, dispatchVars>>

NoCall == [op |-> "none"]
NoOutcome == [kind |-> "none"]

\* the cache directory is empty and no call is in progress
Init ==
    /\ fs = [path \in CachePaths |-> Absent]
    /\ pc = [p \in Procs |-> "idle"]
    /\ ds = [p \in Procs |-> NoDataset]
    /\ http = [p \in Procs |-> "none"]
    /\ response = [p \in Procs |-> NoResponse]
    /\ conn = [p \in Procs |-> "none"]
    /\ fd = [p \in Procs |-> "closed"]
    /\ pos = [p \in Procs |-> 0]
    /\ sha = [p \in Procs |-> NoHash]
    /\ exc = [p \in Procs |-> NoExc]
    /\ ctx = [p \in Procs |-> NoExc]
    /\ result = [p \in Procs |-> NoResult]
    /\ fetched = {}
    /\ installed = {}
    /\ imported = {}
    /\ dcall = NoCall
    /\ outcome = NoOutcome
    /\ rng = 0
    /\ last = NoCall

Step(p) ==
    \/ _download_data_request(p)
    \/ _download_data_open(p)
    \/ _download_data_stream(p)
    \/ _download_data_verify(p)
    \/ _download_data_except(p)
    \/ _download_data_except_remove(p)
    \/ _download_data_finally(p)
    \/ Kill(p)
    \/ Done(p)

\* single-threaded use: a call starts when no other is in progress
Next ==
    \E p \in Procs :
        \/ \E dataset \in Datasets :
              /\ \A q \in Procs \ {p} : pc[q] = "idle"
              /\ _get_path(p, dataset)
        \/ Step(p)

Spec == Init /\ [][Next]_vars

\* single-threaded use with any identifier, the odd ones included
NextResolve ==
    \E p \in Procs :
        \/ \E dataset \in Datasets \cup OddDatasets :
              /\ \A q \in Procs \ {p} : pc[q] = "idle"
              /\ _get_path(p, dataset)
        \/ Step(p)

SpecResolve == Init /\ [][NextResolve]_vars

\* several processes resolve the same remote URL, with no locking: a call starts
\* at any time
ConcDatasets == {KnownUrl}

NextConc ==
    \E p \in Procs :
        \/ \E dataset \in ConcDatasets : _get_path(p, dataset)
        \/ Step(p)

SpecConc == Init /\ [][NextConc]_vars

(***************************************************************************)
(* The engine dispatcher.  A registry is an ordered mapping (a dict keeps  *)
(* insertion order): a sequence of engines, each with the attribute path   *)
(* of its reader for each format.  A format is a string; like an           *)
(* identifier it is the sequence of its pieces.  An attribute path is the  *)
(* sequence of the names between its dots.                                 *)
(***************************************************************************)
_EAGER_TABULAR_LOOKUP ==
    << [engine |-> "pandas",
        readers |-> [f \in {<<"csv">>, <<"parquet">>} |->
                        IF f = <<"csv">> THEN <<"read_csv">> ELSE <<"read_parquet">>]],
       [engine |-> "polars",
        readers |-> [f \in {<<"csv">>, <<"parquet">>} |->
                        IF f = <<"csv">> THEN <<"read_csv">> ELSE <<"read_parquet">>]] >>
_LAZY_TABULAR_LOOKUP ==
    << [engine |-> "polars",
        readers |-> [f \in {<<"csv">>, <<"parquet">>} |->
                        IF f = <<"csv">> THEN <<"scan_csv">> ELSE <<"scan_parquet">>]],
       [engine |-> "dask",
        readers |-> [f \in {<<"csv">>, <<"parquet">>} |->
                        IF f = <<"csv">> THEN <<"dataframe", "read_csv">>
                        ELSE <<"dataframe", "read_parquet">>]] >>
_EAGER_GRIDDED_LOOKUP ==
    << [engine |-> "xarray",
        readers |-> [f \in {<<"dataset">>, <<"dataarray">>} |->
                        IF f = <<"dataset">> THEN <<"open_dataset">> ELSE <<"open_dataarray">>]] >>

Lookups == {_EAGER_TABULAR_LOOKUP, _LAZY_TABULAR_LOOKUP, _EAGER_GRIDDED_LOOKUP}

\* engine=None
None == "None"
\* the libraries an environment may have: the registered engines, and one
\* that no registry names
Libs == {"pandas", "polars", "dask", "xarray", "numpy"}
EngineArgs == Libs \cup {None}
\* format=None
NoFormat == <<>>
FormatArgs == {NoFormat, <<"csv">>, <<"parquet">>, <<"dataset">>, <<"parq">>}
\* engine_kwargs: a set of <<keyword, value>> pairs; None is the empty one
KwargsArgs == {{}, {<<"nrows", "5">>}}

\* the keys of a registry, and the entry of one of its engines
Engines(lookups) == {lookups[i].engine : i \in 1..Len(lookups)}
Entry(lookups, engine) ==
    lookups[CHOOSE i \in 1..Len(lookups) : lookups[i].engine = engine]

\* importlib.util.find_spec(name) in environment env
find_spec(name, env) == name \in env
\* importlib.import_module(module) succeeds in env: a library that is
\* installed is installed with its submodules
Importable(module, env) == module[1] \in env

\* what a call of the dispatcher returned or raised, the modules it imported
\* and the names it probed with find_spec, in order
Returned(kind, engine, attr, imports, probes) ==
    [kind |-> kind, engine |-> engine, attr |-> attr, imports |-> imports, probes |-> probes]

\* a dispatcher that looks the reader up before it imports the engine
get_method_explicit_lookup_first(engine, format, engine_lookups, env, probes) ==
    IF engine \notin Engines(engine_lookups)
    THEN Returned("KeyError", engine, <<>>, {}, probes)
    ELSE IF format \notin DOMAIN Entry(engine_lookups, engine).readers
    THEN Returned("KeyError", engine, <<>>, {}, probes)
    ELSE IF ~Importable(<<engine>>, env)
    THEN Returned("ImportError", engine, <<>>, {}, probes)
    ELSE LET attr == Entry(engine_lookups, engine).readers[format]
         IN  Returned("reader", engine, attr,
                      {<<engine>>, <<engine>> \o SubSeq(attr, 1, Len(attr) - 1)}, probes)

\* a dispatcher that looks the reader up with dict.get: a missing engine or
\* format gives None, not a lookup error
get_method_explicit_get(engine, format, engine_lookups, env, probes) ==
    IF ~Importable(<<engine>>, env)
    THEN Returned("ImportError", engine, <<>>, {}, probes)
    ELSE IF engine \notin Engines(engine_lookups)
    THEN Returned("None", engine, <<>>, {<<engine>>}, probes)
    ELSE IF format \notin DOMAIN Entry(engine_lookups, engine).readers
    THEN Returned("None", engine, <<>>, {<<engine>>}, probes)
    ELSE LET attr == Entry(engine_lookups, engine).readers[format]
         IN  Returned("reader", engine, attr,
                      {<<engine>>, <<engine>> \o SubSeq(attr, 1, Len(attr) - 1)}, probes)

\* lines 105-110: import the engine, look the reader up, import the
\* submodules of a dotted attribute path, walk the path with getattr
get_method_explicit(engine, format, engine_lookups, env, probes) ==
    IF ~Importable(<<engine>>, env)
    THEN Returned("ImportError", engine, <<>>, {}, probes)
    ELSE IF engine \notin Engines(engine_lookups)
    THEN Returned("KeyError", engine, <<>>, {<<engine>>}, probes)
    ELSE IF format \notin DOMAIN Entry(engine_lookups, engine).readers
    THEN Returned("KeyError", engine, <<>>, {<<engine>>}, probes)
    ELSE LET attr == Entry(engine_lookups, engine).readers[format]
             sub  == <<engine>> \o SubSeq(attr, 1, Len(attr) - 1)
         IN  IF Len(attr) > 1
             THEN IF Importable(sub, env)
                  THEN Returned("reader", engine, attr, {<<engine>>, sub}, probes)
                  ELSE Returned("ImportError", engine, <<>>, {<<engine>>}, probes)
             ELSE Returned("reader", engine, attr, {<<engine>>}, probes)

\* a dispatcher whose loop does not stop at the first engine found: the last
\* one found wins
get_method_auto_last(format, engine_lookups, env, i, probes) ==
    LET found == {j \in i..Len(engine_lookups) : find_spec(engine_lookups[j].engine, env)}
        all == [j \in 1..Len(engine_lookups) |-> engine_lookups[j].engine]
    IN  IF found = {}
        THEN Returned("None", None, <<>>, {}, all)
        ELSE get_method_explicit(
                 engine_lookups[CHOOSE j \in found : \A k \in found : k <= j].engine,
                 format, engine_lookups, env, all)

\* a dispatcher that raises when no engine is found
get_method_auto_raising(format, engine_lookups, env, i, probes) ==
    LET found == {j \in i..Len(engine_lookups) : find_spec(engine_lookups[j].engine, env)}
        first == CHOOSE j \in found : \A k \in found : j <= k
    IN  IF found = {}
        THEN Returned("ImportError", None, <<>>, {}, probes)
        ELSE get_method_explicit(engine_lookups[first].engine, format, engine_lookups, env,
                                 [j \in 1..first |-> engine_lookups[j].engine])

\* lines 114-117: the first engine of the registry, from index i on, that
\* find_spec finds is resolved as an explicit engine; if there is none,
\* "No available engines can be imported" is printed and None is returned
RECURSIVE get_method_auto(_, _, _, _, _)
get_method_auto(format, engine_lookups, env, i, probes) ==
    IF i > Len(engine_lookups)
    THEN Returned("None", None, <<>>, {}, probes)
    ELSE IF find_spec(engine_lookups[i].engine, env)
    THEN get_method_explicit(engine_lookups[i].engine, format, engine_lookups, env,
                             Append(probes, engine_lookups[i].engine))
    ELSE get_method_auto(format, engine_lookups, env, i + 1,
                         Append(probes, engine_lookups[i].engine))

\* _get_method (lines 103-117)
_get_method(engine, format, engine_lookups, env) ==
    IF engine # None
    THEN get_method_explicit(engine, format, engine_lookups, env, <<>>)
    ELSE get_method_auto(format, engine_lookups, env, 1, <<>>)

\* os.fspath(dataset).split(".")[-1]: what follows the last "."
RECURSIVE AfterLastDot(_)
AfterLastDot(s) ==
    IF s = <<>> \/ s[Len(s)] = "." THEN <<>>
    ELSE Append(AfterLastDot(SubSeq(s, 1, Len(s) - 1)), s[Len(s)])

\* format or os.fspath(dataset).split(".")[-1]
InferFormat(format, dataset) == IF format # NoFormat THEN format ELSE AfterLastDot(dataset)

\* engine_function(path, **(engine_kwargs or {})): the reader runs, or the
\* call of None raises TypeError, or the error of _get_method propagates
CallReader(method, path, engine_kwargs) ==
    IF method.kind = "reader"
    THEN [kind |-> "data", engine |-> method.engine, attr |-> method.attr,
          path |-> path, kwargs |-> engine_kwargs,
          imports |-> method.imports, probes |-> method.probes]
    ELSE IF method.kind = "None"
    THEN [kind |-> "TypeError", engine |-> None, attr |-> <<>>,
          path |-> path, kwargs |-> {},
          imports |-> method.imports, probes |-> method.probes]
    ELSE [kind |-> method.kind, engine |-> method.engine, attr |-> <<>>,
          path |-> path, kwargs |-> {},
          imports |-> method.imports, probes |-> method.probes]

\* a direct call of _get_method
Call_get_method(engine, format, engine_lookups) ==
    /\ dcall = NoCall
    /\ dcall' = [op |-> "_get_method", engine |-> engine, format |-> format,
                 lookups |-> engine_lookups]
    /\ outcome' = _get_method(engine, format, engine_lookups, installed)
    /\ imported' = imported \cup outcome'.imports
    /\ UNCHANGED <<fetchVars, installed, synthVars>>

\* a loader that takes the reader from the eager registry whatever lazy is
load_tabular_outcome_eager(dataset, format, engine, engine_kwargs, lazy, download_only, env) ==
    IF download_only
    THEN [kind |-> "path", path |-> ResolvedPath(dataset), imports |-> {}, probes |-> <<>>]
    ELSE CallReader(_get_method(engine, InferFormat(format, dataset),
                                _EAGER_TABULAR_LOOKUP, env),
                    ResolvedPath(dataset), engine_kwargs)

\* _load_tabular (lines 120-138) for a bundled dataset, whose path _get_path
\* returns at once: what it returns or raises in environment env
load_tabular_outcome(dataset, format, engine, engine_kwargs, lazy, download_only, env) ==
    IF download_only
    THEN [kind |-> "path", path |-> ResolvedPath(dataset), imports |-> {}, probes |-> <<>>]
    ELSE CallReader(_get_method(engine, InferFormat(format, dataset),
                                IF lazy THEN _LAZY_TABULAR_LOOKUP
                                ELSE _EAGER_TABULAR_LOOKUP, env),
                    ResolvedPath(dataset), engine_kwargs)

\* a direct call of _load_tabular
_load_tabular(dataset, format, engine, engine_kwargs, lazy, download_only) ==
    /\ dcall = NoCall
    /\ dcall' = [op |-> "_load_tabular", dataset |-> dataset, engine |-> engine,
                 format |-> format, kwargs |-> engine_kwargs, lazy |-> lazy,
                 download_only |-> download_only,
                 lookups |-> IF lazy THEN _LAZY_TABULAR_LOOKUP ELSE _EAGER_TABULAR_LOOKUP]
    /\ outcome' = load_tabular_outcome(dataset, format, engine, engine_kwargs, lazy,
                                       download_only, installed)
    /\ imported' = imported \cup outcome'.imports
    /\ UNCHANGED <<fetchVars, installed, synthVars>>

\* _load_gridded (lines 141-154) for a bundled dataset: what it returns or
\* raises in environment env
load_gridded_outcome(dataset, format, engine, engine_kwargs, env) ==
    CallReader(_get_method(engine, InferFormat(format, dataset),
                           _EAGER_GRIDDED_LOOKUP, env),
               ResolvedPath(dataset), engine_kwargs)

\* a direct call of _load_gridded
_load_gridded(dataset, format, engine, engine_kwargs) ==
    /\ dcall = NoCall
    /\ dcall' = [op |-> "_load_gridded", dataset |-> dataset, engine |-> engine,
                 format |-> format, kwargs |-> engine_kwargs,
                 lookups |-> _EAGER_GRIDDED_LOOKUP]
    /\ outcome' = load_gridded_outcome(dataset, format, engine, engine_kwargs, installed)
    /\ imported' = imported \cup outcome'.imports
    /\ UNCHANGED <<fetchVars, installed, synthVars>>

\* the interpreter exits; the next call runs in a fresh one
Exit ==
    /\ dcall # NoCall
    /\ dcall' = NoCall
    /\ outcome' = NoOutcome
    /\ imported' = {}
    /\ UNCHANGED <<fetchVars, installed, synthVars>>

\* any environment of installed libraries, nothing imported yet
InitDispatch ==
    /\ fs = [path \in CachePaths |-> Absent]
    /\ pc = [p \in Procs |-> "idle"]
    /\ ds = [p \in Procs |-> NoDataset]
    /\ http = [p \in Procs |-> "none"]
    /\ response = [p \in Procs |-> NoResponse]
    /\ conn = [p \in Procs |-> "none"]
    /\ fd = [p \in Procs |-> "closed"]
    /\ pos = [p \in Procs |-> 0]
    /\ sha = [p \in Procs |-> NoHash]
    /\ exc = [p \in Procs |-> NoExc]
    /\ ctx = [p \in Procs |-> NoExc]
    /\ result = [p \in Procs |-> NoResult]
    /\ fetched = {}
    /\ installed \in SUBSET Libs
    /\ imported = {}
    /\ dcall = NoCall
    /\ outcome = NoOutcome
    /\ rng = 0
    /\ last = NoCall

NextDispatch ==
    \/ \E engine \in EngineArgs, format \in FormatArgs \ {NoFormat}, lookups \in Lookups :
          Call_get_method(engine, format, lookups)
    \/ \E dataset \in BundledDatasets, format \in FormatArgs, engine \in EngineArgs,
          kw \in KwargsArgs, lazy \in BOOLEAN, download_only \in BOOLEAN :
          _load_tabular(dataset, format, engine, kw, lazy, download_only)
    \/ \E dataset \in BundledDatasets, format \in FormatArgs, engine \in EngineArgs,
          kw \in KwargsArgs :
          _load_gridded(dataset, format, engine, kw)
    \/ Exit

SpecDispatch == InitDispatch /\ [][NextDispatch]_vars

(***************************************************************************)
(* The accessors of __init__.py that read a bundled file.                  *)
(***************************************************************************)
EarthquakesCsv == <<"earthquakes", ".", "csv">>
AppleStocksCsv == <<"apple_stocks", ".", "csv">>
StocksCsv == <<"stocks", ".", "csv">>

\* engine_kwargs of the caller of an accessor: a set of <<keyword, value>>
\* pairs, each value a sequence of lexical pieces; None is the empty one.
\* The second is a keyword no accessor sets, the last two override the
\* keywords the accessors set.
AccessorKwargs ==
    {{},
     {<<"nrows", <<"5">>>>},
     {<<"null_values", <<"?">>>>, <<"try_parse_dates", <<"False">>>>,
      <<"parse_dates", <<"False">>>>},
     {<<"dtype", <<"str">>>>, <<"schema_overrides", <<"None">>>>}}

\* the keys of a dict
Keys(d) == {kv[1] : kv \in d}

\* a merge in which the left operand wins
dict_or_left_wins(left, right) ==
    left \cup {kv \in right : kv[1] \notin Keys(left)}

\* left | right of two dicts: a new dict with the pairs of right and the pairs
\* of left whose key right does not have
dict_or(left, right) ==
    right \cup {kv \in left : kv[1] \notin Keys(right)}

depth_order == <<"Shallow", "Intermediate", "Deep">>
mag_order == <<"Light", "Moderate", "Strong", "Major">>
\* pl.Enum(categories): ordered by construction
pl_Enum(categories) == <<"Enum">> \o categories
\* pd.api.types.CategoricalDtype(categories=categories, ordered=ordered)
CategoricalDtype(categories, ordered) ==
    <<"CategoricalDtype", IF ordered THEN "ordered" ELSE "unordered">> \o categories

\* the defaults each accessor lays under engine_kwargs, chosen by its engine
\* argument
penguins_defaults(engine) ==
    IF engine = "polars" THEN {<<"null_values", <<"NA">>>>} ELSE {}
\* defaults of earthquakes that leave the two class columns to the reader
earthquakes_defaults_dates_only(engine) ==
    IF engine = "polars" THEN {<<"try_parse_dates", <<"True">>>>}
    ELSE {<<"parse_dates", <<"time">>>>}
earthquakes_defaults(engine) ==
    IF engine = "polars"
    THEN {<<"try_parse_dates", <<"True">>>>,
          <<"schema_overrides", <<"depth_class">> \o pl_Enum(depth_order)
                                \o <<"mag_class">> \o pl_Enum(mag_order)>>}
    ELSE {<<"parse_dates", <<"time">>>>,
          <<"dtype", <<"depth_class">> \o CategoricalDtype(depth_order, TRUE)
                     \o <<"mag_class">> \o CategoricalDtype(mag_order, TRUE)>>}
apple_stocks_defaults(engine) ==
    IF engine = "polars" THEN {<<"try_parse_dates", <<"True">>>>}
    ELSE {<<"parse_dates", <<"date">>>>}
stocks_defaults(engine) ==
    IF engine = "polars" THEN {<<"try_parse_dates", <<"True">>>>}
    ELSE {<<"parse_dates", <<"date">>>>}

\* the container each reader of the registries returns
Container(engine, attr) ==
    IF engine = "pandas" THEN "pd.DataFrame"
    ELSE IF engine = "polars"
    THEN IF attr \in {<<"scan_csv">>, <<"scan_parquet">>}
         THEN "pl.LazyFrame" ELSE "pl.DataFrame"
    ELSE IF engine = "dask" THEN "dd.DataFrame"
    ELSE IF attr = <<"open_dataarray">> THEN "xr.DataArray" ELSE "xr.Dataset"

\* the columns of earthquakes.csv the accessor sets a dtype for
ClassColumns == {"depth_class", "mag_class"}
\* the dtype a reader invocation gives a column: the one its keyword for
\* dtypes (schema_overrides for the readers of polars, dtype for those of
\* pandas and dask) holds for the column, else one the reader infers
ColumnDtype(read, column) ==
    LET key == IF read.engine = "polars" THEN "schema_overrides" ELSE "dtype"
        vals == {kv[2] : kv \in {p \in read.kwargs : p[1] = key}}
    IN  IF vals = {} THEN <<"inferred">>
        ELSE LET v == CHOOSE x \in vals : TRUE
                 at == {i \in 1..Len(v) : v[i] = column}
             IN  IF at = {} THEN <<"inferred">>
                 ELSE LET i == CHOOSE j \in at : TRUE
                      IN  SubSeq(v, i + 1, FirstIn(v, ClassColumns, i + 1) - 1)

\* what an accessor returns or raises: the outcome r of its call of the
\* loader (loaded) or of the statements before it, the reader invocations
\* behind it, the steps the accessor applied to the reader's result, the
\* container it returns and the caller's dict as the call leaves it
AccessorOutcome(r, loaded, post, engine_kwargs) ==
    r @@ [loaded |-> loaded,
          reads |-> IF r.kind = "data"
                    THEN <<[engine |-> r.engine, attr |-> r.attr, path |-> r.path,
                            kwargs |-> r.kwargs]>>
                    ELSE <<>>,
          post |-> post,
          container |-> IF r.kind = "data" THEN Container(r.engine, r.attr)
                        ELSE "none",
          caller_kwargs |-> engine_kwargs]

\* the arguments of a call of a tabular accessor
AccessorCall(op, dataset, engine, engine_kwargs, lazy) ==
    [op |-> op, dataset |-> dataset, engine |-> engine, format |-> <<"csv">>,
     kwargs |-> engine_kwargs, lazy |-> lazy,
     lookups |-> IF lazy THEN _LAZY_TABULAR_LOOKUP ELSE _EAGER_TABULAR_LOOKUP]

\* penguins (lines 169-238)
penguins(engine, engine_kwargs, lazy) ==
    /\ dcall = NoCall
    /\ dcall' = AccessorCall("penguins", PenguinsCsv, engine, engine_kwargs, lazy)
    /\ outcome' = AccessorOutcome(
                      load_tabular_outcome(PenguinsCsv, <<"csv">>, engine,
                                           dict_or(penguins_defaults(engine), engine_kwargs),
                                           lazy, FALSE, installed),
                      TRUE, <<>>, engine_kwargs)
    /\ imported' = imported \cup outcome'.imports
    /\ UNCHANGED <<fetchVars, installed, synthVars>>

\* earthquakes (lines 241-343): the branch on engine imports polars or pandas
\* to build the defaults, before the loader is called
earthquakes(engine, engine_kwargs, lazy) ==
    LET lib == IF engine = "polars" THEN "polars" ELSE "pandas"
    IN  /\ dcall = NoCall
        /\ dcall' = AccessorCall("earthquakes", EarthquakesCsv, engine, engine_kwargs, lazy)
        /\ outcome' =
              IF ~Importable(<<lib>>, installed)
              THEN AccessorOutcome(
                       [kind |-> "ImportError", engine |-> lib, attr |-> <<>>,
                        imports |-> {}, probes |-> <<>>],
                       FALSE, <<>>, engine_kwargs)
              ELSE LET r == load_tabular_outcome(
                                EarthquakesCsv, <<"csv">>, engine,
                                dict_or(earthquakes_defaults(engine), engine_kwargs),
                                lazy, FALSE, installed)
                   IN  AccessorOutcome([r EXCEPT !.imports = @ \cup {<<lib>>}],
                                       TRUE, <<>>, engine_kwargs)
        /\ imported' = imported \cup outcome'.imports
        /\ UNCHANGED <<fetchVars, installed, synthVars>>

\* apple_stocks (lines 346-410)
apple_stocks(engine, engine_kwargs, lazy) ==
    /\ dcall = NoCall
    /\ dcall' = AccessorCall("apple_stocks", AppleStocksCsv, engine, engine_kwargs, lazy)
    /\ outcome' = AccessorOutcome(
                      load_tabular_outcome(AppleStocksCsv, <<"csv">>, engine,
                                           dict_or(apple_stocks_defaults(engine), engine_kwargs),
                                           lazy, FALSE, installed),
                      TRUE, <<>>, engine_kwargs)
    /\ imported' = imported \cup outcome'.imports
    /\ UNCHANGED <<fetchVars, installed, synthVars>>

\* stocks (lines 413-479)
stocks(engine, engine_kwargs, lazy) ==
    /\ dcall = NoCall
    /\ dcall' = AccessorCall("stocks", StocksCsv, engine, engine_kwargs, lazy)
    /\ outcome' = AccessorOutcome(
                      load_tabular_outcome(StocksCsv, <<"csv">>, engine,
                                           dict_or(stocks_defaults(engine), engine_kwargs),
                                           lazy, FALSE, installed),
                      TRUE, <<>>, engine_kwargs)
    /\ imported' = imported \cup outcome'.imports
    /\ UNCHANGED <<fetchVars, installed, synthVars>>

\* the dtypes of the air variable the reader yields for the bundled file,
\* by the versions of xarray and netCDF4 installed
AirDtypes == {"float32", "float64"}

\* an accessor that returns what the reader yields as it is
air_temperature_uncast(engine, engine_kwargs) ==
    /\ dcall = NoCall
    /\ dcall' = [op |-> "air_temperature", dataset |-> AirTemperatureNc,
                 engine |-> engine, format |-> <<"dataset">>,
                 kwargs |-> engine_kwargs, lookups |-> _EAGER_GRIDDED_LOOKUP]
    /\ \E dtype \in AirDtypes :
          LET r == load_gridded_outcome(AirTemperatureNc, <<"dataset">>, engine,
                                        engine_kwargs, installed)
          IN  outcome' = AccessorOutcome(r, TRUE, <<>>, engine_kwargs)
                         @@ [read_dtype |-> IF r.kind = "data" THEN dtype ELSE "none",
                             dtype |-> IF r.kind = "data" THEN dtype ELSE "none"]
    /\ imported' = imported \cup outcome'.imports
    /\ UNCHANGED <<fetchVars, installed, synthVars>>

\* air_temperature (lines 487-553): a float32 air variable is cast
air_temperature(engine, engine_kwargs) ==
    /\ dcall = NoCall
    /\ dcall' = [op |-> "air_temperature", dataset |-> AirTemperatureNc,
                 engine |-> engine, format |-> <<"dataset">>,
                 kwargs |-> engine_kwargs, lookups |-> _EAGER_GRIDDED_LOOKUP]
    /\ \E dtype \in AirDtypes :
          LET r == load_gridded_outcome(AirTemperatureNc, <<"dataset">>, engine,
                                        engine_kwargs, installed)
              cast == r.kind = "data" /\ dtype = "float32"
          IN  outcome' = AccessorOutcome(r, TRUE,
                                         IF cast THEN <<"astype(float64)">> ELSE <<>>,
                                         engine_kwargs)
                         @@ [read_dtype |-> IF r.kind = "data" THEN dtype ELSE "none",
                             dtype |-> IF r.kind # "data" THEN "none"
                                       ELSE IF cast THEN "float64" ELSE dtype]
    /\ imported' = imported \cup outcome'.imports
    /\ UNCHANGED <<fetchVars, installed, synthVars>>

NextAccessors ==
    \/ \E engine \in EngineArgs, kw \in AccessorKwargs, lazy \in BOOLEAN :
          penguins(engine, kw, lazy)
    \/ \E engine \in EngineArgs, kw \in AccessorKwargs, lazy \in BOOLEAN :
          earthquakes(engine, kw, lazy)
    \/ \E engine \in EngineArgs, kw \in AccessorKwargs, lazy \in BOOLEAN :
          apple_stocks(engine, kw, lazy)
    \/ \E engine \in EngineArgs, kw \in AccessorKwargs, lazy \in BOOLEAN :
          stocks(engine, kw, lazy)
    \/ \E engine \in EngineArgs, kw \in AccessorKwargs :
          air_temperature(engine, kw)
    \/ Exit

SpecAccessors == InitDispatch /\ [][NextAccessors]_vars

(***************************************************************************)
(* synthetic_clusters of __init__.py.                                      *)
(***************************************************************************)
\* total_points is drawn from 0..MaxPoints
MaxPoints == 10
\* a generator has RngStates states; a draw yields the variate of the state
\* and moves the generator to the next state
RngStates == 3

\* the clusters (x, y, s, val, cat), s in hundredths
clusters ==
    <<[x |-> 2, y |-> 2, s |-> 3, val |-> 0, cat |-> "d1"],
      [x |-> 2, y |-> 0 - 2, s |-> 10, val |-> 1, cat |-> "d2"],
      [x |-> 0 - 2, y |-> 0 - 2, s |-> 50, val |-> 2, cat |-> "d3"],
      [x |-> 0 - 2, y |-> 2, s |-> 100, val |-> 3, cat |-> "d4"],
      [x |-> 0, y |-> 0, s |-> 300, val |-> 4, cat |-> "d5"]>>

\* np.random.default_rng(seed): a fresh generator whose state the seed fixes
default_rng(seed) == seed % RngStates
\* the generator g after num draws
advance(g, num) == (g + num) % RngStates
\* num normal variates of mean loc and deviation scale drawn from a
\* generator in state g (seed.normal(loc, scale, num), or num calls of
\* random.gauss(loc, scale)): each is written <<loc, scale, z>>, z the
\* variate of the state it was drawn in
normal(g, loc, scale, num) ==
    [i \in 1..num |-> <<loc, scale, (g + i - 1) % RngStates>>]

\* the rows of one cluster, its x column drawn before its y column from a
\* generator in state g
cluster_rows(c, num, g) ==
    LET xs == normal(g, c.x, c.s, num)
        ys == normal(advance(g, num), c.y, c.s, num)
    IN  [i \in 1..num |-> [x |-> xs[i], y |-> ys[i], s |-> c.s,
                           val |-> c.val, cat |-> c.cat]]

\* a join that puts each frame before the frames that precede it
RECURSIVE concat_reversed(_, _)
concat_reversed(frames, from) ==
    IF from > Len(frames) THEN <<>>
    ELSE concat_reversed(frames, from + 1) \o frames[from]

\* pd.concat, dd.concat(axis=0) and pl.concat(how="vertical") of the frames
\* from..5: their rows, frame after frame
RECURSIVE concat(_, _)
concat(frames, from) ==
    IF from > Len(frames) THEN <<>>
    ELSE frames[from] \o concat(frames, from + 1)

\* what a call of synthetic_clusters returns or raises
SynthOutcome(kind, msg, imports, rows, container, drawn, g) ==
    [kind |-> kind, msg |-> msg, imports |-> imports, rows |-> rows,
     container |-> container, drawn |-> drawn, rng |-> g]

\* create_synthetic_dataset of the pandas and dask branch for each cluster:
\* each call builds its own generator from the seed 1
pandas_frames(num, g) ==
    [k \in 1..Len(clusters) |-> cluster_rows(clusters[k], num, default_rng(1))]

\* create_synthetic_dataset of the polars branch for each cluster: the
\* variates come from the global generator of the random module, in state g
\* when the call starts
polars_frames(num, g) ==
    [k \in 1..Len(clusters) |-> cluster_rows(clusters[k], num, advance(g, 2 * num * (k - 1)))]

\* points_per_cluster = total_points // 5
points_per_cluster(total_points) == total_points \div 5

\* a synthetic_clusters that imports the libraries of the engine before it
\* looks at total_points
synthetic_clusters_validate_late(engine, lazy, total_points, env, g) ==
    IF engine \in {"pandas", "dask"} /\ ~Importable(<<"numpy">>, env)
    THEN SynthOutcome("ImportError", "numpy", {}, <<>>, "none", 0, g)
    ELSE IF engine \in {"pandas", "dask"} /\ ~Importable(<<"pandas">>, env)
    THEN SynthOutcome("ImportError", "pandas", {<<"numpy">>}, <<>>, "none", 0, g)
    ELSE IF engine = "polars" /\ ~Importable(<<"polars">>, env)
    THEN SynthOutcome("ImportError", "polars", {<<"random">>}, <<>>, "none", 0, g)
    ELSE SynthOutcome("ValueError", "total_points must be a multiple of 5",
                      IF engine \in {"pandas", "dask"} THEN {<<"numpy">>, <<"pandas">>}
                      ELSE IF engine = "polars" THEN {<<"random">>, <<"polars">>}
                      ELSE {},
                      <<>>, "none", 0, g)

\* synthetic_clusters (lines 34-169) in environment env with the global
\* generator in state g
synthetic_clusters_outcome(engine, lazy, total_points, env, g) ==
    LET num == points_per_cluster(total_points)
    IN  IF total_points % 5 # 0
        THEN SynthOutcome("ValueError", "total_points must be a multiple of 5",
                          {}, <<>>, "none", 0, g)
        ELSE IF engine \in {"pandas", "dask"}
        THEN IF ~Importable(<<"numpy">>, env)
             THEN SynthOutcome("ImportError", "numpy", {}, <<>>, "none", 0, g)
             ELSE IF ~Importable(<<"pandas">>, env)
             THEN SynthOutcome("ImportError", "pandas", {<<"numpy">>}, <<>>, "none", 0, g)
             ELSE IF engine = "dask" /\ ~Importable(<<"dask", "dataframe">>, env)
             THEN SynthOutcome("ImportError", "dask", {<<"numpy">>, <<"pandas">>},
                               <<>>, "none", 0, g)
             ELSE SynthOutcome("data", "",
                               IF engine = "dask"
                               THEN {<<"numpy">>, <<"pandas">>, <<"dask", "dataframe">>}
                               ELSE {<<"numpy">>, <<"pandas">>},
                               concat(pandas_frames(num, g), 1),
                               IF engine = "dask" THEN "dd.DataFrame" ELSE "pd.DataFrame",
                               2 * num * Len(clusters), g)
        ELSE IF engine = "polars"
        THEN IF ~Importable(<<"polars">>, env)
             THEN SynthOutcome("ImportError", "polars", {<<"random">>}, <<>>, "none", 0, g)
             ELSE SynthOutcome("data", "", {<<"random">>, <<"polars">>},
                               concat(polars_frames(num, g), 1),
                               IF lazy THEN "pl.LazyFrame" ELSE "pl.DataFrame",
                               2 * num * Len(clusters),
                               advance(g, 2 * num * Len(clusters)))
        ELSE SynthOutcome("ValueError", "Not valid engine", {}, <<>>, "none", 0, g)

\* a call of synthetic_clusters, after any earlier call of the process has
\* returned; last keeps what the earlier call returned when its arguments
\* were the same
synthetic_clusters(engine, lazy, total_points) ==
    LET call == [op |-> "synthetic_clusters", engine |-> engine, lazy |-> lazy,
                 total_points |-> total_points]
    IN  /\ dcall = NoCall \/ dcall.op = "synthetic_clusters"
        /\ dcall' = call
        /\ outcome' = synthetic_clusters_outcome(engine, lazy, total_points, installed, rng)
        /\ rng' = outcome'.rng
        /\ last' = IF dcall = call THEN outcome ELSE NoCall
        /\ imported' = imported \cup outcome'.imports
        /\ UNCHANGED <<fetchVars, installed>>

\* any environment of installed libraries, and a global generator in any
\* state: the process may have drawn from it before
InitSynthetic ==
    /\ fs = [path \in CachePaths |-> Absent]
    /\ pc = [p \in Procs |-> "idle"]
    /\ ds = [p \in Procs |-> NoDataset]
    /\ http = [p \in Procs |-> "none"]
    /\ response = [p \in Procs |-> NoResponse]
    /\ conn = [p \in Procs |-> "none"]
    /\ fd = [p \in Procs |-> "closed"]
    /\ pos = [p \in Procs |-> 0]
    /\ sha = [p \in Procs |-> NoHash]
    /\ exc = [p \in Procs |-> NoExc]
    /\ ctx = [p \in Procs |-> NoExc]
    /\ result = [p \in Procs |-> NoResult]
    /\ fetched = {}
    /\ installed \in SUBSET Libs
    /\ imported = {}
    /\ dcall = NoCall
    /\ outcome = NoOutcome
    /\ rng \in 0..(RngStates - 1)
    /\ last = NoCall

NextSynthetic ==
    \/ \E engine \in EngineArgs, lazy \in BOOLEAN, total_points \in 0..MaxPoints :
          synthetic_clusters(engine, lazy, total_points)
    \/ Exit

SpecSynthetic == InitSynthetic /\ [][NextSynthetic]_vars

(***************************************************************************)
(* _load_tabular and _load_gridded for a remote dataset: the call resolves *)
(* the path, which may run the fetch, and then resolves the engine.        *)
(***************************************************************************)
LoadDatasets == {KnownUrl, OtherUrl}
LoadFormats == {NoFormat, <<"parquet">>}
LoadKwargs == {{}}
\* the process the loader runs in
LoadProc == 1
\* the environments the loader is called in: no library, the first eager
\* engine only, the lazy and gridded engines only, every library
LoadEnvs == {{}, {"pandas"}, {"polars", "dask", "xarray"}, Libs}

\* _load_tabular is entered (lines 118-127): its arguments are bound
_load_tabular_enter(dataset, format, engine, engine_kwargs, lazy, download_only) ==
    /\ dcall = NoCall
    /\ \A q \in Procs : pc[q] = "idle"
    /\ dcall' = [op |-> "_load_tabular", dataset |-> dataset, engine |-> engine,
                 format |-> format, kwargs |-> engine_kwargs, lazy |-> lazy,
                 download_only |-> download_only,
                 lookups |-> IF lazy THEN _LAZY_TABULAR_LOOKUP ELSE _EAGER_TABULAR_LOOKUP]
    /\ UNCHANGED <<fetchVars, installed, imported, outcome, synthVars>>

\* _load_gridded is entered (lines 141-148)
_load_gridded_enter(dataset, format, engine, engine_kwargs) ==
    /\ dcall = NoCall
    /\ \A q \in Procs : pc[q] = "idle"
    /\ dcall' = [op |-> "_load_gridded", dataset |-> dataset, engine |-> engine,
                 format |-> format, kwargs |-> engine_kwargs, lazy |-> FALSE,
                 download_only |-> FALSE, lookups |-> _EAGER_GRIDDED_LOOKUP]
    /\ UNCHANGED <<fetchVars, installed, imported, outcome, synthVars>>

\* lines 130, 132 and 149: the loader entered calls _get_path(dataset)
load_get_path(p) ==
    /\ dcall # NoCall
    /\ outcome = NoOutcome
    /\ \A q \in Procs : pc[q] = "idle"
    /\ _get_path(p, dcall.dataset)

\* _get_path is over: its exception leaves the loader, or the loader goes on
\* with the path (lines 130 and 133-138, 150-154)
load_resume(p) ==
    /\ dcall # NoCall
    /\ outcome = NoOutcome
    /\ pc[p] \in {"returned", "raised"}
    /\ outcome' = IF pc[p] = "raised"
                  THEN [kind |-> exc[p], imports |-> {}, probes |-> <<>>]
                  ELSE IF dcall.op = "_load_tabular"
                  THEN load_tabular_outcome(dcall.dataset, dcall.format, dcall.engine,
                                            dcall.kwargs, dcall.lazy, dcall.download_only,
                                            installed)
                  ELSE load_gridded_outcome(dcall.dataset, dcall.format, dcall.engine,
                                            dcall.kwargs, installed)
    /\ imported' = imported \cup outcome'.imports
    /\ UNCHANGED <<fetchVars, installed, dcall, synthVars>>

NextLoad ==
    \/ \E dataset \in LoadDatasets, format \in LoadFormats, engine \in EngineArgs,
          kw \in LoadKwargs, lazy \in BOOLEAN, download_only \in BOOLEAN :
          _load_tabular_enter(dataset, format, engine, kw, lazy, download_only)
    \/ \E dataset \in LoadDatasets, format \in LoadFormats, engine \in EngineArgs,
          kw \in LoadKwargs :
          _load_gridded_enter(dataset, format, engine, kw)
    \/ load_get_path(LoadProc)
    \/ _download_data_request(LoadProc)
    \/ _download_data_open(LoadProc)
    \/ _download_data_stream(LoadProc)
    \/ _download_data_verify(LoadProc)
    \/ _download_data_except(LoadProc)
    \/ _download_data_except_remove(LoadProc)
    \/ _download_data_finally(LoadProc)
    \/ load_resume(LoadProc)
    \/ outcome # NoOutcome /\ Done(LoadProc)
    \/ (\A q \in Procs : pc[q] = "idle") /\ outcome # NoOutcome /\ Exit

\* the cache directory is empty, no call is in progress, nothing is imported
InitLoad ==
    /\ fs = [path \in CachePaths |-> Absent]
    /\ pc = [p \in Procs |-> "idle"]
    /\ ds = [p \in Procs |-> NoDataset]
    /\ http = [p \in Procs |-> "none"]
    /\ response = [p \in Procs |-> NoResponse]
    /\ conn = [p \in Procs |-> "none"]
    /\ fd = [p \in Procs |-> "closed"]
    /\ pos = [p \in Procs |-> 0]
    /\ sha = [p \in Procs |-> NoHash]
    /\ exc = [p \in Procs |-> NoExc]
    /\ ctx = [p \in Procs |-> NoExc]
    /\ result = [p \in Procs |-> NoResult]
    /\ fetched = {}
    /\ installed \in LoadEnvs
    /\ imported = {}
    /\ dcall = NoCall
    /\ outcome = NoOutcome
    /\ rng = 0
    /\ last = NoCall

SpecLoad == InitLoad /\ [][NextLoad]_vars

(***************************************************************************)
(* Properties of the path resolver and the fetch.                          *)
(***************************************************************************)
\* the call of p is over
Over(p) == pc[p] \in {"returned", "raised"}
\* the call of p ran _download_data
Downloaded(p) == http[p] # "none"
\* p streamed the whole body of a URL with a registered hash, and the digest
\* of what it streamed is not the registered one
Mismatch(p) ==
    /\ _KNOWN_HASHES(ds[p]) # NoHash
    /\ response[p].status = 200
    /\ pos[p] = Len(response[p].body)
    /\ <<sha256(response[p].body)>> # _KNOWN_HASHES(ds[p])
\* the file at path holds a whole body
Complete(path) ==
    /\ fs[path].exists
    /\ Len(fs[path].content) = BodyLen
    /\ \A i \in 1..BodyLen : fs[path].content[i] # Hole

\* C1: a call of _get_path for a remote identifier goes on to _download_data
\* (the only place a request is sent) exactly when no file is at the derived
\* cache path at the time of the call, and otherwise returns at once; a call
\* for a URL a fetch of which has succeeded returns the derived path at once.
C1_DownloadOnlyIfAbsent ==
    [][\A p \in Procs :
        (pc[p] = "idle" /\ pc'[p] # "idle" /\ StartsWithHttp(ds'[p]))
        => /\ (pc'[p] = "request") <=> ~fs[ResolvedPath(ds'[p])].exists
           /\ (pc'[p] = "returned") <=> fs[ResolvedPath(ds'[p])].exists
           /\ ds'[p] \in fetched
                => /\ pc'[p] = "returned"
                   /\ result'[p] = ResolvedPath(ds'[p])
                   /\ http'[p] = "none"]_vars

\* a second call for a fetched URL returned the path without any request
C1_Witness ==
    \E p \in Procs :
        pc[p] = "returned" /\ ds[p] \in fetched /\ ~Downloaded(p) /\ fs[result[p]].exists

\* C2: when the digest of the streamed content differs from the registered
\* hash, the call ends by raising HashMismatchError itself and no file is at
\* the destination path.
C2_HashMismatchRaised ==
    \A p \in Procs :
        (Over(p) /\ Mismatch(p))
        => /\ pc[p] = "raised"
           /\ exc[p] = "HashMismatchError"
           /\ ctx[p] = NoExc
           /\ ~fs[ResolvedPath(ds[p])].exists

C2_Witness ==
    \E p \in Procs : pc[p] = "raised" /\ Mismatch(p) /\ exc[p] = "HashMismatchError"

\* C3: when the status of the response is not 200, the call ends by raising
\* an exception and no file is at the destination path.
C3_Non200Raises ==
    \A p \in Procs :
        (Over(p) /\ response[p] # NoResponse /\ response[p].status # 200)
        => /\ pc[p] = "raised"
           /\ ~fs[ResolvedPath(ds[p])].exists

\* C4: whenever an exception leaves _download_data, no file is at the
\* destination path and the exception is the one that was first raised.
C4_CleanupOnAnyException ==
    \A p \in Procs :
        pc[p] = "raised"
        => /\ ~fs[ResolvedPath(ds[p])].exists
           /\ ctx[p] = NoExc

\* C5: a path returned by _get_path for a remote identifier names a file that
\* exists, holds a whole body, and has the registered digest if one is
\* registered for the identifier.
C5_ReturnedFileValid ==
    \A p \in Procs :
        (pc[p] = "returned" /\ StartsWithHttp(ds[p]))
        => /\ Complete(result[p])
           /\ _KNOWN_HASHES(ds[p]) # NoHash
                => <<sha256(fs[result[p]].content)>> = _KNOWN_HASHES(ds[p])

\* C6: no process holds a returned path while another process has the file
\* at that path open for writing, and a process that found the file and got
\* its path back does not see it deleted by another process.
C6_NoCorruptionWhenConcurrent ==
    \A p \in Procs :
        (pc[p] = "returned" /\ StartsWithHttp(ds[p]))
        => /\ \A q \in Procs \ {p} :
                ~(fd[q] = "linked" /\ ResolvedPath(ds[q]) = result[p])
           /\ ~Downloaded(p) => fs[result[p]].exists

\* C7: when _download_data is left, by return or by exception, the pool is
\* cleared, and the connection is released if a response was obtained.
C7_ResourcesReleased ==
    \A p \in Procs :
        (Over(p) /\ Downloaded(p))
        => /\ http[p] = "cleared"
           /\ response[p] # NoResponse => conn[p] = "released"

\* the stream was interrupted by Ctrl-C, which no except clause handles, and
\* the connection was released all the same
C7_Witness ==
    \E p \in Procs :
        /\ pc[p] = "raised"
        /\ exc[p] = "KeyboardInterrupt"
        /\ response[p] # NoResponse
        /\ conn[p] = "released"
        /\ http[p] = "cleared"

(***************************************************************************)
(* Properties of the engine dispatcher.                                    *)
(***************************************************************************)
\* the call in progress reached _get_method
Dispatched ==
    /\ dcall # NoCall
    /\ dcall.op \in {"_get_method", "_load_tabular", "_load_gridded"}
    /\ dcall.op \in {"_load_tabular"} => ~dcall.download_only
\* the format _get_method was given
DispatchedFormat ==
    IF dcall.op = "_get_method" THEN dcall.format
    ELSE InferFormat(dcall.format, dcall.dataset)
\* the order in which the registry of the call declares its engines
DeclaredOrder ==
    IF dcall.op = "_load_gridded" THEN <<"xarray">>
    ELSE IF dcall.op = "_load_tabular"
    THEN IF dcall.lazy THEN <<"polars", "dask">> ELSE <<"pandas", "polars">>
    ELSE IF dcall.lookups = _EAGER_GRIDDED_LOOKUP THEN <<"xarray">>
    ELSE IF dcall.lookups = _LAZY_TABULAR_LOOKUP THEN <<"polars", "dask">>
    ELSE <<"pandas", "polars">>
\* the places in that order of the engines this environment has
Found == {i \in 1..Len(DeclaredOrder) : DeclaredOrder[i] \in installed}
\* the formats the registries name for tabular and for gridded data
RegisteredFormats ==
    IF DeclaredOrder = <<"xarray">> THEN {<<"dataset">>, <<"dataarray">>}
    ELSE {<<"csv">>, <<"parquet">>}

\* C8: with engine omitted, the engine resolved is the first one, in the
\* declared order of the registry, that the environment has: no engine
\* before it is installed, it is the one whose reader is returned (or run, by
\* _load_tabular and _load_gridded) when the format is registered, only
\* its modules are imported, and find_spec probed the engines up to it.
C8_FirstImportableEngine ==
    (Dispatched /\ dcall.engine = None /\ Found # {})
    => \E i \in Found :
          /\ \A j \in Found : i <= j
          /\ outcome.engine = DeclaredOrder[i]
          /\ outcome.probes = SubSeq(DeclaredOrder, 1, i)
          /\ \A m \in imported : m[1] = DeclaredOrder[i]
          /\ DispatchedFormat \in RegisteredFormats
               => outcome.kind = (IF dcall.op = "_get_method" THEN "reader" ELSE "data")

\* eager auto-selection where every library is installed: pandas, the first
\* declared, is the one whose reader runs
C8_Witness ==
    /\ Dispatched
    /\ dcall.engine = None
    /\ dcall.op = "_load_tabular"
    /\ installed = Libs
    /\ ~dcall.lazy
    /\ outcome.kind = "data"
    /\ outcome.engine = "pandas"
    /\ outcome.attr = <<"read_csv">>

\* C9: with engine omitted and no engine of the registry installed,
\* _get_method returns None and raises nothing, nothing is imported, and
\* _load_tabular and _load_gridded fail with the TypeError of calling None.
C9_NoEngineReturnsNone ==
    (Dispatched /\ dcall.engine = None /\ Found = {})
    => /\ outcome.kind = (IF dcall.op = "_get_method" THEN "None" ELSE "TypeError")
       /\ imported = {}
       /\ outcome.probes = DeclaredOrder

C9_Witness ==
    /\ Dispatched
    /\ dcall.engine = None
    /\ dcall.op = "_load_tabular"
    /\ dcall.lazy
    /\ installed = {"pandas", "xarray", "numpy"}
    /\ outcome.kind = "TypeError"

\* C10: with an explicit engine whose library is not installed, the call
\* fails with an import error, whatever the format and the registry, also
\* when the engine or the format is not registered.
C10_MissingEngineImportError ==
    (Dispatched /\ dcall.engine # None /\ dcall.engine \notin installed)
    => /\ outcome.kind = "ImportError"
       /\ imported = {}

\* an engine no registry names, with a format no registry names
C10_Witness ==
    /\ Dispatched
    /\ dcall.op = "_get_method"
    /\ dcall.engine = "numpy"
    /\ "numpy" \notin installed
    /\ dcall.format = <<"parq">>
    /\ outcome.kind = "ImportError"

\* C11: an explicit engine that is installed and has no reader for the format
\* in the registry of the call (the engine is not in that registry, or the
\* format is not one of its formats) gives a lookup error: no reader is
\* returned and none runs.
C11_UnregisteredLookupError ==
    (/\ Dispatched
     /\ dcall.engine # None
     /\ dcall.engine \in installed
     /\ \/ \A i \in 1..Len(DeclaredOrder) : DeclaredOrder[i] # dcall.engine
        \/ DispatchedFormat \notin RegisteredFormats)
    => /\ outcome.kind = "KeyError"
       /\ outcome.attr = <<>>

\* pandas, an eager engine, asked for a lazy load of a csv file
C11_Witness ==
    /\ Dispatched
    /\ dcall.op = "_load_tabular"
    /\ dcall.engine = "pandas"
    /\ "pandas" \in installed
    /\ dcall.lazy
    /\ DispatchedFormat = <<"csv">>
    /\ outcome.kind = "KeyError"

(***************************************************************************)
(* Properties of the accessors.                                            *)
(***************************************************************************)
\* the call in progress is one of the file-backed tabular accessors
TabularAccessors == {"penguins", "earthquakes", "apple_stocks", "stocks"}
AccessorCalled == dcall # NoCall /\ dcall.op \in TabularAccessors
\* the defaults the accessor called lays under the caller's engine_kwargs
CalledDefaults ==
    IF dcall.op = "penguins" THEN penguins_defaults(dcall.engine)
    ELSE IF dcall.op = "earthquakes" THEN earthquakes_defaults(dcall.engine)
    ELSE IF dcall.op = "apple_stocks" THEN apple_stocks_defaults(dcall.engine)
    ELSE stocks_defaults(dcall.engine)
\* the accessor called invoked a reader
ReaderRan == AccessorCalled /\ Len(outcome.reads) > 0

\* C12: when an accessor with per-dataset defaults invokes a reader, the
\* keywords it passes are the defaults overlaid with engine_kwargs: every pair
\* of the caller is passed, every default whose key the caller did not give is
\* passed, nothing else is passed, and the caller's dict is left as it was.
C12_DefaultsOverlaidCallerWins ==
    ReaderRan =>
        LET passed == outcome.reads[1].kwargs
        IN  /\ \A kv \in dcall.kwargs : kv \in passed
            /\ \A kv \in CalledDefaults :
                  kv[1] \notin Keys(dcall.kwargs) => kv \in passed
            /\ \A kv \in passed : kv \in dcall.kwargs \cup CalledDefaults
            /\ outcome.caller_kwargs = dcall.kwargs

\* stocks read with polars by a caller who sets try_parse_dates to False: the
\* caller's value is passed, the default is not
C12_Witness ==
    /\ ReaderRan
    /\ dcall.op = "stocks"
    /\ dcall.engine = "polars"
    /\ <<"try_parse_dates", <<"False">>>> \in dcall.kwargs
    /\ <<"try_parse_dates", <<"False">>>> \in outcome.reads[1].kwargs
    /\ <<"try_parse_dates", <<"True">>>> \notin outcome.reads[1].kwargs

(***************************************************************************)
(* Properties of synthetic_clusters.                                       *)
(***************************************************************************)
\* the last call was a call of synthetic_clusters
SynthCalled == dcall # NoCall /\ dcall.op = "synthetic_clusters"
\* the libraries the branch of an engine imports are installed
SynthLibsInstalled ==
    /\ dcall.engine \in {"pandas", "dask"} => {"numpy", "pandas"} \subseteq installed
    /\ dcall.engine \in {"dask", "polars"} => dcall.engine \in installed

\* C13: whatever the engine and lazy, a total_points that is not a multiple of
\* 5 gives ValueError "total_points must be a multiple of 5", and the call has
\* imported no library and drawn no variate.
C13_NotMultipleOfFiveRaisesFirst ==
    (SynthCalled /\ dcall.total_points % 5 # 0)
    => /\ outcome.kind = "ValueError"
       /\ outcome.msg = "total_points must be a multiple of 5"
       /\ outcome.imports = {}
       /\ outcome.drawn = 0
       /\ outcome.rows = <<>>

\* a lazy dask call for 6 points where dask and what it needs are installed
C13_Witness ==
    /\ SynthCalled
    /\ dcall.engine = "dask"
    /\ dcall.lazy
    /\ dcall.total_points = 6
    /\ {"numpy", "pandas", "dask"} \subseteq installed
    /\ outcome.kind = "ValueError"

\* C14: for pandas, polars and dask with their libraries installed, either
\* lazy and a total_points that is a multiple of 5, the call returns
\* total_points rows: total_points/5 rows of d1, then as many of d2, d3, d4
\* and d5.
C14_RowsPerClusterInOrder ==
    (SynthCalled /\ dcall.engine \in {"pandas", "polars", "dask"}
                 /\ dcall.total_points % 5 = 0 /\ SynthLibsInstalled)
    => /\ outcome.kind = "data"
       /\ Len(outcome.rows) = dcall.total_points
       /\ \A i \in 1..dcall.total_points :
             outcome.rows[i].cat =
                 <<"d1", "d2", "d3", "d4", "d5">>[((i - 1) \div (dcall.total_points \div 5)) + 1]

\* a lazy polars call for 10 points: two rows a cluster
C14_Witness ==
    /\ SynthCalled
    /\ dcall.engine = "polars"
    /\ dcall.lazy
    /\ dcall.total_points = 10
    /\ outcome.kind = "data"
    /\ Len(outcome.rows) = 10
    /\ outcome.rows[3].cat = "d2"

\* the x and y columns of what a call returned
XY(rows) == [i \in 1..Len(rows) |-> <<rows[i].x, rows[i].y>>]

\* C15: two calls of a process with the same arguments that both return data
\* return the same x and y values, whatever the state of the generators
\* before them.
C15_SameArgumentsSameData ==
    (SynthCalled /\ outcome.kind = "data" /\ last # NoCall /\ last.kind = "data")
    => XY(outcome.rows) = XY(last.rows)

\* pandas and dask, which draw from a generator seeded anew for every
\* cluster, do repeat their data
SeededEnginesRepeat ==
    (SynthCalled /\ dcall.engine \in {"pandas", "dask"}
                 /\ outcome.kind = "data" /\ last # NoCall /\ last.kind = "data")
    => XY(outcome.rows) = XY(last.rows)

\* a dtype is an ordered categorical, and its categories in their order
Ordered(dtype) ==
    \/ dtype[1] = "Enum"
    \/ dtype[1] = "CategoricalDtype" /\ dtype[2] = "ordered"
Categories(dtype) ==
    IF dtype[1] = "Enum" THEN Tail(dtype)
    ELSE IF dtype[1] = "CategoricalDtype" THEN Tail(Tail(dtype))
    ELSE <<>>

\* C16: when earthquakes called with pandas, polars or dask, eager or lazy,
\* reads the file and the caller has not given the keyword that sets dtypes
\* for the engine, depth_class is an ordered categorical with the categories
\* Shallow, Intermediate, Deep and mag_class one with Light, Moderate, Strong,
\* Major, in that order.
C16_OrderedCategories ==
    (/\ ReaderRan
     /\ dcall.op = "earthquakes"
     /\ dcall.engine \in {"pandas", "polars", "dask"}
     /\ (IF dcall.engine = "polars" THEN "schema_overrides" ELSE "dtype")
            \notin Keys(dcall.kwargs))
    => LET depth == ColumnDtype(outcome.reads[1], "depth_class")
           mag == ColumnDtype(outcome.reads[1], "mag_class")
       IN  /\ Ordered(depth)
           /\ Categories(depth) = <<"Shallow", "Intermediate", "Deep">>
           /\ Ordered(mag)
           /\ Categories(mag) = <<"Light", "Moderate", "Strong", "Major">>

\* a lazy read with dask by a caller who gives nrows only
C16_Witness ==
    /\ ReaderRan
    /\ dcall.op = "earthquakes"
    /\ dcall.engine = "dask"
    /\ dcall.lazy
    /\ dcall.kwargs = {<<"nrows", <<"5">>>>}
    /\ Categories(ColumnDtype(outcome.reads[1], "mag_class"))
           = <<"Light", "Moderate", "Strong", "Major">>

(***************************************************************************)
(* Properties of the path resolver for any identifier.                     *)
(***************************************************************************)
\* the call of p took the identifier for a bundled file: it returned the
\* bundled-data directory joined with the identifier and sent no request
TakenAsBundled(p) ==
    /\ pc[p] = "returned"
    /\ result[p] = DataPath(ds[p])
    /\ ~Downloaded(p)

\* C17: a call of _get_path takes its identifier for a bundled file, and
\* returns the bundled path with no check of the file system and no request,
\* exactly when the identifier has no URL scheme.
C17_RemoteIffUrlScheme ==
    \A p \in Procs :
        (pc[p] # "idle" /\ ds[p] # NoDataset)
        => (TakenAsBundled(p) <=> urlsplit(ds[p]).scheme = <<>>)

\* the file each tabular accessor reads
BundledFile ==
    IF dcall.op = "penguins" THEN <<"penguins", ".", "csv">>
    ELSE IF dcall.op = "earthquakes" THEN <<"earthquakes", ".", "csv">>
    ELSE IF dcall.op = "apple_stocks" THEN <<"apple_stocks", ".", "csv">>
    ELSE <<"stocks", ".", "csv">>
\* the engines registered for eager and for lazy loading
RegisteredFor(lazy) == IF lazy THEN {"polars", "dask"} ELSE {"pandas", "polars"}
\* the libraries the call needs are installed: the engine, and pandas for
\* the defaults earthquakes builds when the engine is not polars
AccessorLibsInstalled ==
    /\ dcall.engine \in installed
    /\ (dcall.op = "earthquakes" /\ dcall.engine # "polars") => "pandas" \in installed

\* C18: a tabular accessor called with an engine registered for its laziness
\* (and installed) invokes one reader, once: the csv reader the registry of
\* that laziness names for the engine, on the bundled file of the accessor;
\* it returns what the reader returned with nothing applied to it, so the
\* eager container of the engine for an eager call and the lazy one for a
\* lazy call.
C18_OneReaderResultUnmodified ==
    (/\ AccessorCalled
     /\ dcall.engine \in RegisteredFor(dcall.lazy)
     /\ AccessorLibsInstalled)
    => /\ outcome.kind = "data"
       /\ Len(outcome.reads) = 1
       /\ outcome.reads[1].engine = dcall.engine
       /\ outcome.reads[1].attr =
             (IF dcall.engine = "dask" THEN <<"dataframe", "read_csv">>
              ELSE IF dcall.engine = "polars" /\ dcall.lazy THEN <<"scan_csv">>
              ELSE <<"read_csv">>)
       /\ outcome.reads[1].path = [root |-> "_DATAPATH", rel |-> BundledFile]
       /\ outcome.post = <<>>
       /\ outcome.container =
             (IF dcall.engine = "pandas" THEN "pd.DataFrame"
              ELSE IF dcall.engine = "dask" THEN "dd.DataFrame"
              ELSE IF dcall.lazy THEN "pl.LazyFrame" ELSE "pl.DataFrame")

\* apple_stocks read lazily with polars
C18_Witness ==
    /\ AccessorCalled
    /\ dcall.op = "apple_stocks"
    /\ dcall.engine = "polars"
    /\ dcall.lazy
    /\ "polars" \in installed
    /\ outcome.kind = "data"
    /\ outcome.reads[1].attr = <<"scan_csv">>
    /\ outcome.container = "pl.LazyFrame"

\* C19: whenever air_temperature returns a dataset its air variable is
\* float64: a float32 result of the reader is cast to float64, a float64 one
\* is returned with nothing applied to it.
C19_AirIsFloat64 ==
    (dcall # NoCall /\ dcall.op = "air_temperature" /\ outcome.kind = "data")
    => /\ outcome.dtype = "float64"
       /\ outcome.read_dtype = "float32" => outcome.post = <<"astype(float64)">>
       /\ outcome.read_dtype = "float64" => outcome.post = <<>>
       /\ Len(outcome.reads) = 1

\* xarray yields float32 and the accessor casts
C19_Witness ==
    /\ dcall # NoCall
    /\ dcall.op = "air_temperature"
    /\ dcall.engine = "xarray"
    /\ outcome.kind = "data"
    /\ outcome.read_dtype = "float32"
    /\ outcome.dtype = "float64"
    /\ outcome.post = <<"astype(float64)">>

\* the defaults the accessor called has for the engine whose reader ran
InvokedDefaults ==
    IF dcall.op = "penguins" THEN penguins_defaults(outcome.reads[1].engine)
    ELSE IF dcall.op = "earthquakes" THEN earthquakes_defaults(outcome.reads[1].engine)
    ELSE IF dcall.op = "apple_stocks" THEN apple_stocks_defaults(outcome.reads[1].engine)
    ELSE stocks_defaults(outcome.reads[1].engine)

\* C20: when a tabular accessor invokes a reader, the keywords the caller did
\* not give are the defaults of the engine whose reader runs: each of them is
\* passed and no other keyword is, also when the engine was left out and
\* picked by the dispatcher.
C20_DefaultsOfInvokedEngine ==
    ReaderRan =>
        LET passed == outcome.reads[1].kwargs
        IN  /\ \A kv \in InvokedDefaults :
                  kv[1] \notin Keys(dcall.kwargs) => kv \in passed
            /\ \A kv \in passed : kv \in dcall.kwargs \cup InvokedDefaults

\* the same for calls that name their engine
DefaultsOfNamedEngine ==
    (AccessorCalled /\ dcall.engine # None) => C20_DefaultsOfInvokedEngine

\* the identifier is a remote URL: it has a URL scheme and the resolver takes
\* it for remote
RemoteUrl(dataset) == StartsWithHttp(dataset) /\ urlsplit(dataset).scheme # <<>>

\* C21: the path a call of _get_path returns for a remote URL is the cache
\* root joined with the path component of the URL, leading slashes stripped,
\* and names a file under the cache root, whatever the segments of the URL
\* path; a call for a URL with the path component of a URL already fetched
\* returns without a download.
C21_CachePathUnderRootKeyedByUrlPath ==
    \A p \in Procs :
        (pc[p] = "returned" /\ RemoteUrl(ds[p]))
        => /\ result[p] = [root |-> "_CACHEPATH", rel |-> lstrip(urlsplit(ds[p]).path)]
           /\ Within(result[p].rel, 1, 0)
           /\ (\E u \in fetched :
                  u # ds[p] /\ urlsplit(u).path = urlsplit(ds[p]).path)
              => ~Downloaded(p)

(***************************************************************************)
(* Properties of the fetch of a URL with no registered hash.               *)
(***************************************************************************)
\* the call of p ran a fetch, now over, of a URL _KNOWN_HASHES has no entry for
UnregisteredFetchOver(p) ==
    Over(p) /\ Downloaded(p) /\ _KNOWN_HASHES(ds[p]) = NoHash
\* the destination of p's fetch is in place and holds the chunks of the
\* response in the order they came
BodySaved(p) ==
    /\ fs[ResolvedPath(ds[p])].exists
    /\ fs[ResolvedPath(ds[p])].content = response[p].body

\* C22 as stated: in a fetch of a URL with no registered hash no digest is
\* accumulated, HashMismatchError is not raised, and after any 200 response
\* the destination is in place and holds the chunks in the order they came.
C22_Any200LeavesFile ==
    \A p \in Procs :
        UnregisteredFetchOver(p)
        => /\ sha[p] = NoHash
           /\ exc[p] # "HashMismatchError"
           /\ ctx[p] # "HashMismatchError"
           /\ response[p].status = 200 => BodySaved(p)

\* C22: in a fetch of a URL with no registered hash no digest is accumulated
\* and HashMismatchError is not raised, and after a 200 response whose body
\* was streamed to its end the call returns with the destination in place,
\* holding the chunks in the order they came.
C22_NoVerificationWithoutEntry ==
    \A p \in Procs :
        UnregisteredFetchOver(p)
        => /\ sha[p] = NoHash
           /\ exc[p] # "HashMismatchError"
           /\ ctx[p] # "HashMismatchError"
           /\ (response[p].status = 200 /\ pos[p] = Len(response[p].body))
              => (pc[p] = "returned" /\ BodySaved(p))

\* the URL with a query and no entry, fetched to the end of its body
C22_Witness ==
    \E p \in Procs :
        /\ UnregisteredFetchOver(p)
        /\ ds[p] = OtherUrl
        /\ response[p].status = 200
        /\ pos[p] = BodyLen
        /\ sha[p] = NoHash
        /\ BodySaved(p)
        /\ Len(fs[ResolvedPath(ds[p])].content) = BodyLen

\* the containers that defer their computation
LazyContainers == {"pl.LazyFrame", "dd.DataFrame"}

\* C23: a call of synthetic_clusters that returns a container returns a lazy
\* one exactly when lazy is True, and a call with an engine that is not
\* registered for the laziness asked for (pandas with lazy=True, dask with
\* lazy=False, an engine no registry knows, none) ends in an error.
C23_SyntheticHonoursRegistry ==
    SynthCalled
    => /\ outcome.kind = "data" => (outcome.container \in LazyContainers <=> dcall.lazy)
       /\ dcall.engine \notin RegisteredFor(dcall.lazy) => outcome.kind # "data"

\* the same for polars, the one engine registered for both
PolarsHonoursLazy ==
    (SynthCalled /\ dcall.engine = "polars") => C23_SyntheticHonoursRegistry
\* and for every engine no registry of tabular readers knows
UnknownEngineRejected ==
    (SynthCalled /\ dcall.engine \notin {"pandas", "polars", "dask"})
    => outcome.kind \in {"ValueError"}

(***************************************************************************)
(* Properties of the loaders for a remote dataset.                         *)
(***************************************************************************)
\* the loader entered is over, and the process has not yet gone on
LoaderOver ==
    /\ dcall # NoCall
    /\ dcall.op \in {"_load_tabular", "_load_gridded"}
    /\ outcome # NoOutcome
    /\ pc[LoadProc] \in {"returned", "raised"}
\* the loader failed in the resolution of the engine
EngineResolutionFailed == outcome.kind \in {"ImportError", "KeyError", "TypeError"}
\* the cache file of the dataset of the call is on disk
CacheFileOnDisk == fs[ResolvedPath(dcall.dataset)].exists

\* a path resolution that raised left the loader before any engine resolution
PathFirst ==
    (LoaderOver /\ pc[LoadProc] = "raised")
    => /\ outcome.kind = exc[LoadProc]
       /\ outcome.imports = {}
       /\ outcome.probes = <<>>
\* with no format given, an installed engine named by the caller meets the
\* text after the last "." of the URL ("parq", "csv?v=2"), which no registry
\* has: a lookup error
FormatInferred ==
    (/\ LoaderOver
     /\ pc[LoadProc] = "returned"
     /\ ~dcall.download_only
     /\ dcall.format = NoFormat
     /\ dcall.engine # None
     /\ dcall.engine \in installed)
    => outcome.kind = "KeyError"
\* download_only returns the path with no engine resolution and no reader call
DownloadOnly ==
    (LoaderOver /\ pc[LoadProc] = "returned" /\ dcall.download_only)
    => /\ outcome.kind = "path"
       /\ outcome.path = result[LoadProc]
       /\ outcome.imports = {}
       /\ outcome.probes = <<>>
       /\ imported = {}

\* C24: a loader called for a remote dataset resolves the path, with the
\* fetch if the file is missing, before the engine; a format left out is the
\* text after the last "." of the identifier; so a call that fails in the
\* resolution of the engine leaves the cache file on disk; and with
\* download_only the path is returned with no engine resolution and no
\* reader call.
C24_CacheFileBeforeEngine ==
    /\ PathFirst
    /\ FormatInferred
    /\ DownloadOnly
    /\ (LoaderOver /\ EngineResolutionFailed) => CacheFileOnDisk

\* the last part where the server did not answer 404
CacheFileBeforeEngineUnless404 ==
    (LoaderOver /\ EngineResolutionFailed /\ response[LoadProc].status # 404)
    => CacheFileOnDisk

====
